---- MODULE Spec2Model ----
(***************************************************************************)
(* Score ledger, top-3 placement detector, chat log and broadcast channel  *)
(* of the Tie Drop server, in its three storage variants:                  *)
(*   "sqlite"   src/server.js                                              *)
(*   "mongo"    src/server_mongo.js                                        *)
(*   "supabase" src/server_supabase.js                                     *)
(* Every storage call is a suspension point: a handler is cut into one     *)
(* action per storage call, and the continuation of an awaited call runs   *)
(* in the action in which the call commits or fails.                       *)
(***************************************************************************)
EXTENDS Integers, Sequences, FiniteSets, TLC

\* ---------------------------------------------------------------- bounds
NumIds == 4
LoginIds == 2
MaxScore == 2
MaxLogins == 1
MaxSubmits == 2
LedgerSubmits == 1
MaxChats == 2
SpecChats == 1
NumClients == 2
SpecClients == 1
MaxFaults == 1

\* ------------------------------------------------------ program constants
ReplayLimit == 50
LeaderboardLimit == 20
Top3Limit == 3

Backends == {"sqlite", "mongo", "supabase"}
Ids == 1 .. NumIds
Names == {"a", "b"}
NoUser == "none"
Scores == 1 .. MaxScore
Clients == 1 .. NumClients
SYSTEM == "SYSTEM"
ChatUsers == {"a"}
ChatText == <<"hello">>
NoSession == [twitterId |-> 0, username |-> NoUser]

VARIABLES
  backend,   \* which of the three server files runs
  db,        \* mongo: the `db` handle ("pending" | "up" | "down"); else "up"
  users,     \* users table: twitterId -> username, or NoUser
  upserts,   \* sqlite: login upserts queued and not yet run
  sessions,  \* session store: the user objects passport serialized
  scores,    \* scores table, in insertion order
  reqs,      \* POST /api/score handler instances
  messages,  \* messages table, in insertion order
  inserts,   \* message inserts issued and not yet run
  conn,      \* per client: "off" | "pending" | "live" | "noreplay"
  received,  \* per client: the 'chat message' events emitted to its socket
  nextMid,   \* next message instance number
  chats,     \* the 'chat message' events clients have sent, in order
  faults     \* storage calls that have failed so far

vars == <<backend, db, users, upserts, sessions, scores, reqs, messages,
          inserts, conn, received, nextMid, chats, faults>>

\* ---------------------------------------------------------------- helpers
Min(a, b) == IF a < b THEN a ELSE b

Take(seq, n) == SubSeq(seq, 1, Min(n, Len(seq)))

Reverse(seq) == [i \in 1 .. Len(seq) |-> seq[Len(seq) + 1 - i]]

RECURSIVE SetMax(_)
SetMax(S) ==
  IF S = {} THEN 0
  ELSE LET x == CHOOSE y \in S : TRUE
           m == SetMax(S \ {x})
       IN IF x > m THEN x ELSE m

\* A storage call either succeeds or fails; failures are budgeted.
StorageCall(ok) ==
  /\ ok \/ faults < MaxFaults
  /\ faults' = IF ok THEN faults ELSE faults + 1

\* ------------------------------------------------------------ leaderboard
ScoresOf(sc, id) == {sc[i].score : i \in {j \in DOMAIN sc : sc[j].twitterId = id}}

BestOf(sc, id) == SetMax(ScoresOf(sc, id))

\* scores JOIN users GROUP BY twitterId, MAX(score)
Grouped(sc, us) ==
  {[twitterId |-> id, username |-> us[id], highScore |-> BestOf(sc, id)] :
     id \in {j \in Ids : ScoresOf(sc, j) # {} /\ us[j] # NoUser}}

\* ORDER BY highScore DESC: every order the engine may return (ties are free)
RECURSIVE SortedDesc(_)
SortedDesc(S) ==
  IF S = {} THEN {<<>>}
  ELSE UNION {{<<x>> \o t : t \in SortedDesc(S \ {x})} :
                x \in {y \in S : \A z \in S : z.highScore <= y.highScore}}

\* supabase: every score row with its embedded user
Embedded(sc, us) ==
  {[row |-> i, twitterId |-> sc[i].twitterId, username |-> us[sc[i].twitterId],
    highScore |-> sc[i].score] : i \in DOMAIN sc}

\* supabase: keep the first row of each username
RECURSIVE Dedup(_, _)
Dedup(seq, seen) ==
  IF seq = <<>> THEN <<>>
  ELSE IF Head(seq).username \in seen THEN Dedup(Tail(seq), seen)
  ELSE <<[twitterId |-> Head(seq).twitterId, username |-> Head(seq).username,
          highScore |-> Head(seq).highScore]>>
       \o Dedup(Tail(seq), seen \cup {Head(seq).username})

\* The rows a leaderboard query of the given limit may return.
QueryLeaderboard(limit) ==
  IF backend = "supabase"
  THEN {Take(Dedup(s, {}), limit) : s \in SortedDesc(Embedded(scores, users))}
  ELSE {Take(s, limit) : s \in SortedDesc(Grouped(scores, users))}

\* rows.findIndex(r => r.username === name) + 1
FindRank(rows, name) ==
  LET hits == {i \in DOMAIN rows : rows[i].username = name}
  IN IF hits = {} THEN 0 ELSE CHOOSE i \in hits : \A j \in hits : i <= j

Announcement(name, rank, score) == <<"took", name, rank, score>>

\* rank > 0 && rank <= 3 && userRecord && userRecord.highScore === score
ShouldAnnounce(rows, name, score) ==
  LET rank == FindRank(rows, name)
  IN rank > 0 /\ rank <= 3 /\ rows[rank].highScore = score

\* -------------------------------------------------------------- broadcast
\* io.emit: to every socket connected now
Emit(msg) ==
  received' = [c \in Clients |->
                 IF conn[c] = "off" THEN received[c]
                 ELSE Append(received[c], [user |-> msg.user, text |-> msg.text,
                                           mid |-> msg.mid, via |-> "live"])]

\* (mutant) the rows are emitted as selected, newest first
RecentMessagesNewestFirst(log) ==
  Take(Reverse(log), ReplayLimit)

\* ORDER BY id DESC LIMIT 50, then rows.reverse()
RecentMessages(log) ==
  Reverse(Take(Reverse(log), ReplayLimit))

\* ------------------------------------------------------------------- init
Init ==
  /\ backend \in Backends
  /\ db = IF backend = "mongo" THEN "pending" ELSE "up"
  /\ \E persisted \in BOOLEAN :
       /\ persisted => backend = "mongo"
       /\ users = [i \in Ids |-> IF persisted /\ i = 1 THEN "a" ELSE NoUser]
       /\ sessions = IF persisted THEN {[twitterId |-> 1, username |-> "a"]} ELSE {}
  /\ upserts = {}
  /\ scores = <<>>
  /\ reqs = <<>>
  /\ messages = <<>>
  /\ inserts = {}
  /\ conn = [c \in Clients |-> "off"]
  /\ received = [c \in Clients |-> <<>>]
  /\ nextMid = 1
  /\ chats = <<>>
  /\ faults = 0

\* ------------------------------------------------------------------ login
\* mongo: connectDB()
ConnectDB ==
  /\ backend = "mongo" /\ db = "pending"
  /\ \E ok \in BOOLEAN :
       /\ StorageCall(ok)
       /\ db' = IF ok THEN "up" ELSE "down"
  /\ UNCHANGED <<backend, users, upserts, sessions, scores, reqs, messages,
                 inserts, conn, received, nextMid, chats>>

\* TwitterStrategy verify callback
Login(id, name) ==
  LET user == [twitterId |-> id, username |-> name] IN
  /\ user \notin sessions
  /\ Cardinality(sessions) < MaxLogins
  /\ \/ /\ backend = "sqlite"
        /\ upserts' = upserts \cup {user}
        /\ sessions' = sessions \cup {user}
        /\ UNCHANGED <<users, faults>>
     \/ /\ backend = "mongo" /\ db = "up"
        /\ \E ok \in BOOLEAN :
             /\ StorageCall(ok)
             /\ users' = IF ok THEN [users EXCEPT ![id] = name] ELSE users
             /\ sessions' = IF ok THEN sessions \cup {user} ELSE sessions
        /\ UNCHANGED upserts
     \/ /\ backend = "supabase"
        /\ \E ok \in BOOLEAN :
             /\ StorageCall(ok)
             /\ users' = IF ok THEN [users EXCEPT ![id] = name] ELSE users
        /\ sessions' = sessions \cup {user}
        /\ UNCHANGED upserts
  /\ UNCHANGED <<backend, db, scores, reqs, messages, inserts, conn, received,
                 nextMid, chats>>

\* sqlite: the queued INSERT OR REPLACE INTO users runs
CommitUpsert(p) ==
  /\ p \in upserts
  /\ upserts' = upserts \ {p}
  /\ \E ok \in BOOLEAN :
       /\ StorageCall(ok)
       /\ users' = IF ok THEN [users EXCEPT ![p.twitterId] = p.username] ELSE users
  /\ UNCHANGED <<backend, db, sessions, scores, reqs, messages, inserts, conn,
                 received, nextMid, chats>>

\* ---------------------------------------------------- GET /api/leaderboard
\* Reads only: answers with one of the row sequences the query may return
\* (mongo: with a 500 while `db` is unset); no table and no socket changes.
GetLeaderboard ==
  /\ db = "up" => QueryLeaderboard(LeaderboardLimit) # {}
  /\ UNCHANGED vars

\* ------------------------------------------------------- POST /api/score
\* A handler instance.  pc: "insert" | "check" | "logAnn" | "done" | "crashed";
\* res: the HTTP status sent, "none" while unanswered.  inserted (its score
\* row is in the table), prevBest (the submitter's best score before that
\* insert), seen (the length of the scores table its top-3 query read), rows
\* (the top-3 rows read), ann (the announcements it emitted) and logged
\* (those of them the messages table took) record what the handler saw and
\* did.
NewReq(user, score, pc, res) ==
  [user |-> user, score |-> score, pc |-> pc, res |-> res, inserted |-> FALSE,
   prevBest |-> 0, seen |-> 0, rows |-> <<>>, ann |-> <<>>, logged |-> 0]

\* (mutant) the isAuthenticated guard is missing: the handler goes on to
\* its insert
SubmitUnguarded(score) ==
  /\ Len(reqs) < MaxSubmits
  /\ reqs' = Append(reqs, NewReq(NoSession, score, "insert", "none"))
  /\ UNCHANGED <<backend, db, users, upserts, sessions, scores, messages,
                 inserts, conn, received, nextMid, chats, faults>>

\* if (!req.isAuthenticated()) return res.status(401)
SubmitUnauthenticated(score) ==
  /\ Len(reqs) < MaxSubmits
  /\ reqs' = Append(reqs, NewReq(NoSession, score, "done", "401"))
  /\ UNCHANGED <<backend, db, users, upserts, sessions, scores, messages,
                 inserts, conn, received, nextMid, chats, faults>>

\* (mutant) the handler issues its top-3 query first, without inserting
SubmitScoreCheckFirst(user, score) ==
  /\ Len(reqs) < MaxSubmits
  /\ user \in sessions
  /\ reqs' = Append(reqs,
       IF backend = "mongo" /\ db # "up"
       THEN NewReq(user, score, "crashed", "none")
       ELSE NewReq(user, score, "check", "none"))
  /\ UNCHANGED <<backend, db, users, upserts, sessions, scores, messages,
                 inserts, conn, received, nextMid, chats, faults>>

\* The authenticated handler up to its first storage call.  mongo reads
\* db.collection(...) before its try block: with `db` unset the handler ends
\* there, unanswered.
SubmitScore(user, score) ==
  /\ Len(reqs) < MaxSubmits
  /\ user \in sessions
  /\ reqs' = Append(reqs,
       IF backend = "mongo" /\ db # "up"
       THEN NewReq(user, score, "crashed", "none")
       ELSE NewReq(user, score, "insert", "none"))
  /\ UNCHANGED <<backend, db, users, upserts, sessions, scores, messages,
                 inserts, conn, received, nextMid, chats, faults>>

\* Whether the scores table takes a row of this twitterId: supabase embeds
\* users through the scores.twitter_id foreign key; sqlite declares the key
\* but never turns enforcement on; mongo has none.
ForeignKeyOk(id) == backend # "supabase" \/ (id \in Ids /\ users[id] # NoUser)

\* (mutant) the error of the insert is not looked at: the handler goes on
\* to its top-3 query as after a successful insert
InsertScoreErrorIgnored(i) ==
  LET r == reqs[i] IN
  /\ r.pc = "insert"
  /\ \E ok \in BOOLEAN :
       /\ ok => ForeignKeyOk(r.user.twitterId)
       /\ IF ForeignKeyOk(r.user.twitterId) THEN StorageCall(ok) ELSE UNCHANGED faults
       /\ scores' = IF ok THEN Append(scores, [twitterId |-> r.user.twitterId,
                                               score |-> r.score])
                    ELSE scores
       /\ reqs' = [reqs EXCEPT ![i] =
            [r EXCEPT !.pc = "check", !.inserted = ok,
                      !.res = IF backend = "sqlite" THEN "200" ELSE "none",
                      !.prevBest = BestOf(scores, r.user.twitterId)]]
  /\ UNCHANGED <<backend, db, users, upserts, sessions, messages, inserts,
                 conn, received, nextMid, chats>>

\* INSERT INTO scores runs.  sqlite answers in the insert's callback, right
\* after issuing the top-3 query; the other two answer at the end.
InsertScore(i) ==
  LET r == reqs[i] IN
  /\ r.pc = "insert"
  /\ \E ok \in BOOLEAN :
       /\ ok => ForeignKeyOk(r.user.twitterId)
       /\ IF ForeignKeyOk(r.user.twitterId) THEN StorageCall(ok) ELSE UNCHANGED faults
       /\ IF ok
          THEN /\ scores' = Append(scores, [twitterId |-> r.user.twitterId,
                                            score |-> r.score])
               /\ reqs' = [reqs EXCEPT ![i] =
                    [r EXCEPT !.pc = "check", !.inserted = TRUE,
                              !.res = IF backend = "sqlite" THEN "200" ELSE "none",
                              !.prevBest = BestOf(scores, r.user.twitterId)]]
          ELSE /\ scores' = scores
               /\ reqs' = [reqs EXCEPT ![i] = [r EXCEPT !.pc = "done", !.res = "500"]]
  /\ UNCHANGED <<backend, db, users, upserts, sessions, messages, inserts,
                 conn, received, nextMid, chats>>

\* The top-3 query returns and the placement check runs.
CheckTop3(i) ==
  LET r == reqs[i] IN
  /\ r.pc = "check"
  /\ \/ \* the query fails: sqlite skips the check, the others answer 500
        /\ StorageCall(FALSE)
        /\ reqs' = [reqs EXCEPT ![i] =
             [r EXCEPT !.pc = "done",
                       !.res = IF backend = "sqlite" THEN "200" ELSE "500"]]
        /\ UNCHANGED <<inserts, received, nextMid>>
     \/ \E rows \in QueryLeaderboard(Top3Limit) :
          LET rank == FindRank(rows, r.user.username)
              msg == [user |-> SYSTEM,
                      text |-> Announcement(r.user.username, rank, r.score),
                      mid |-> nextMid]
          IN
          /\ StorageCall(TRUE)
          /\ IF ~ShouldAnnounce(rows, r.user.username, r.score)
             THEN /\ reqs' = [reqs EXCEPT ![i] =
                       [r EXCEPT !.pc = "done", !.res = "200", !.rows = rows,
                                 !.seen = Len(scores)]]
                  /\ UNCHANGED <<inserts, received, nextMid>>
             ELSE IF backend = "sqlite"
             THEN \* sysStmt.run is queued, io.emit runs at once
                  /\ inserts' = inserts \cup {[msg |-> msg, emit |-> FALSE, req |-> i]}
                  /\ Emit(msg)
                  /\ nextMid' = nextMid + 1
                  /\ reqs' = [reqs EXCEPT ![i] =
                       [r EXCEPT !.pc = "done", !.rows = rows,
                                 !.seen = Len(scores),
                                 !.ann = Append(r.ann, msg.text)]]
             ELSE \* await the insert into messages
                  /\ reqs' = [reqs EXCEPT ![i] =
                       [r EXCEPT !.pc = "logAnn", !.rows = rows,
                                 !.seen = Len(scores)]]
                  /\ UNCHANGED <<inserts, received, nextMid>>
  /\ UNCHANGED <<backend, db, users, upserts, sessions, scores, messages,
                 conn, chats>>

\* (mutant) the catch block takes the score row back when the
\* announcement could not be saved
LogAnnouncementRollback(i) ==
  LET r == reqs[i]
      rank == FindRank(r.rows, r.user.username)
      msg == [user |-> SYSTEM,
              text |-> Announcement(r.user.username, rank, r.score),
              mid |-> nextMid]
      own == CHOOSE k \in DOMAIN scores :
               scores[k] = [twitterId |-> r.user.twitterId, score |-> r.score]
  IN
  /\ r.pc = "logAnn"
  /\ nextMid' = nextMid + 1
  /\ \E ok \in BOOLEAN :
       /\ StorageCall(ok)
       /\ messages' = IF ok THEN Append(messages, msg) ELSE messages
       /\ IF ok \/ backend = "supabase"
          THEN /\ Emit(msg)
               /\ scores' = scores
               /\ reqs' = [reqs EXCEPT ![i] =
                    [r EXCEPT !.pc = "done", !.res = "200",
                              !.ann = Append(r.ann, msg.text),
                              !.logged = IF ok THEN r.logged + 1 ELSE r.logged]]
          ELSE /\ received' = received
               /\ scores' = SubSeq(scores, 1, own - 1)
                               \o SubSeq(scores, own + 1, Len(scores))
               /\ reqs' = [reqs EXCEPT ![i] =
                    [r EXCEPT !.pc = "done", !.res = "500", !.inserted = FALSE]]
  /\ UNCHANGED <<backend, db, users, upserts, sessions, inserts, conn, chats>>

\* mongo, supabase: the awaited insert of the announcement returns.
LogAnnouncement(i) ==
  LET r == reqs[i]
      rank == FindRank(r.rows, r.user.username)
      msg == [user |-> SYSTEM,
              text |-> Announcement(r.user.username, rank, r.score),
              mid |-> nextMid]
  IN
  /\ r.pc = "logAnn"
  /\ nextMid' = nextMid + 1
  /\ \E ok \in BOOLEAN :
       /\ StorageCall(ok)
       /\ messages' = IF ok THEN Append(messages, msg) ELSE messages
       /\ IF ok \/ backend = "supabase"
          THEN \* supabase never looks at the insert's error
               /\ Emit(msg)
               /\ reqs' = [reqs EXCEPT ![i] =
                    [r EXCEPT !.pc = "done", !.res = "200",
                              !.ann = Append(r.ann, msg.text),
                              !.logged = IF ok THEN r.logged + 1 ELSE r.logged]]
          ELSE \* mongo: insertOne throws into the catch block
               /\ received' = received
               /\ reqs' = [reqs EXCEPT ![i] = [r EXCEPT !.pc = "done", !.res = "500"]]
  /\ UNCHANGED <<backend, db, users, upserts, sessions, scores, inserts,
                 conn, chats>>

\* --------------------------------------------------------------- messages
\* A queued or awaited INSERT INTO messages runs; the continuation of an
\* awaited chat insert (mongo, supabase) emits on success only.
CommitInsert(p) ==
  /\ p \in inserts
  /\ inserts' = inserts \ {p}
  /\ \E ok \in BOOLEAN :
       /\ StorageCall(ok)
       /\ messages' = IF ok THEN Append(messages, p.msg) ELSE messages
       /\ IF ok /\ p.emit THEN Emit(p.msg) ELSE received' = received
       /\ reqs' = IF ok /\ p.req > 0
                  THEN [reqs EXCEPT ![p.req].logged = @ + 1]
                  ELSE reqs
       /\ chats' = IF ~ok THEN chats
            ELSE [k \in DOMAIN chats |->
                    IF chats[k].mid # p.msg.mid THEN chats[k]
                    ELSE [chats[k] EXCEPT
                            !.absent = {c \in Clients : conn[c] = "off"}]]
  /\ UNCHANGED <<backend, db, users, upserts, sessions, scores, conn, nextMid>>

\* ----------------------------------------------------- io.on('connection')
\* The socket joins the broadcast set at once; the replay query is issued
\* (mongo: only if `db` is set).
Connect(c) ==
  /\ conn[c] = "off"
  /\ conn' = [conn EXCEPT ![c] =
       IF backend = "mongo" /\ db # "up" THEN "noreplay" ELSE "pending"]
  /\ UNCHANGED <<backend, db, users, upserts, sessions, scores, reqs, messages,
                 inserts, received, nextMid, chats, faults>>

\* The replay query returns and its rows are emitted to the socket.
Replay(c) ==
  /\ conn[c] = "pending"
  /\ \E ok \in BOOLEAN :
       /\ StorageCall(ok)
       /\ conn' = [conn EXCEPT ![c] = IF ok THEN "live" ELSE "noreplay"]
       /\ received' = IF ~ok THEN received
            ELSE [received EXCEPT ![c] = @ \o
                   [k \in DOMAIN RecentMessages(messages) |->
                      [user |-> RecentMessages(messages)[k].user,
                       text |-> RecentMessages(messages)[k].text,
                       mid |-> RecentMessages(messages)[k].mid,
                       via |-> "replay"]]]
  /\ UNCHANGED <<backend, db, users, upserts, sessions, scores, reqs, messages,
                 inserts, nextMid, chats>>

\* socket.on('chat message').  supabase registers the listener only after
\* the awaited replay query: a message sent earlier meets no listener.
\* chats records the event: its sender, the clients connected (on) and
\* those whose replay was over (live) when it was sent, and, once its row
\* is in the messages table, the clients not yet connected then (absent).
ChatMessage(c, user) ==
  LET msg == [user |-> user, text |-> ChatText, mid |-> nextMid] IN
  /\ conn[c] # "off"
  /\ Len(chats) < MaxChats
  /\ chats' = Append(chats,
       [mid |-> nextMid, from |-> c,
        on |-> {d \in Clients : conn[d] # "off"},
        live |-> {d \in Clients : conn[d] = "live"},
        absent |-> {}])
  /\ nextMid' = nextMid + 1
  /\ IF backend = "sqlite"
     THEN /\ inserts' = inserts \cup {[msg |-> msg, emit |-> FALSE, req |-> 0]}
          /\ Emit(msg)
     ELSE IF (backend = "mongo" /\ db # "up") \/ (backend = "supabase" /\ conn[c] = "pending")
     THEN UNCHANGED <<inserts, received>>
     ELSE /\ inserts' = inserts \cup {[msg |-> msg, emit |-> TRUE, req |-> 0]}
          /\ received' = received
  /\ UNCHANGED <<backend, db, users, upserts, sessions, scores, reqs, messages,
                 conn, faults>>

\* ------------------------------------------------------------------- spec
Next ==
  \/ ConnectDB
  \/ \E id \in 1 .. LoginIds, name \in Names : Login(id, name)
  \/ \E p \in upserts : CommitUpsert(p)
  \/ GetLeaderboard
  \/ \E score \in Scores : SubmitUnauthenticated(score)
  \/ \E user \in sessions, score \in Scores : SubmitScore(user, score)
  \/ \E i \in DOMAIN reqs : InsertScore(i)
  \/ \E i \in DOMAIN reqs : CheckTop3(i)
  \/ \E i \in DOMAIN reqs : LogAnnouncement(i)
  \/ \E p \in inserts : CommitInsert(p)
  \/ \E c \in 1 .. SpecClients : Connect(c)
  \/ \E c \in Clients : Replay(c)
  \/ \E c \in Clients, user \in ChatUsers :
       Len(chats) < SpecChats /\ ChatMessage(c, user)

Spec == Init /\ [][Next]_vars

\* ------------------------------------------------- replay of a long history
\* The messages table as earlier chat traffic left it: n rows, n up to
\* MaxLog, past the replay limit.
MaxLog == 52

History(n) == [k \in 1 .. n |-> [user |-> "a", text |-> ChatText, mid |-> k]]

InitReplay ==
  /\ backend \in Backends
  /\ db = "up"
  /\ users = [i \in Ids |-> NoUser]
  /\ sessions = {}
  /\ upserts = {}
  /\ scores = <<>>
  /\ reqs = <<>>
  /\ \E n \in 0 .. MaxLog :
       /\ messages = History(n)
       /\ nextMid = n + 1
  /\ inserts = {}
  /\ conn = [c \in Clients |-> "off"]
  /\ received = [c \in Clients |-> <<>>]
  /\ chats = <<>>
  /\ faults = 0

NextReplay ==
  \/ \E c \in 1 .. SpecClients : Connect(c)
  \/ \E c \in Clients : Replay(c)
  \/ \E c \in Clients, user \in ChatUsers :
       Len(chats) < SpecChats /\ ChatMessage(c, user)
  \/ \E p \in inserts : CommitInsert(p)

SpecReplay == InitReplay /\ [][NextReplay]_vars

\* --------------------------------------------------- chat among the clients
\* The sockets alone: every client connects, and MaxChats messages are sent.
NextChat ==
  \/ ConnectDB
  \/ \E c \in Clients : Connect(c)
  \/ \E c \in Clients : Replay(c)
  \/ \E c \in Clients, user \in ChatUsers : ChatMessage(c, user)
  \/ \E p \in inserts : CommitInsert(p)

SpecChat == Init /\ [][NextChat]_vars

\* ------------------------------------------- submissions to a filled ledger
\* The tables as earlier traffic left them: any directory, one score row for
\* each identity that has played (supabase, mongo: only identities with a
\* users row, see ForeignKeyOk and Login), and one session.  No storage call
\* fails from here on.
RECURSIVE LedgerOf(_, _)
LedgerOf(best, id) ==
  IF id > NumIds THEN <<>>
  ELSE (IF best[id] > 0 THEN <<[twitterId |-> id, score |-> best[id]]>> ELSE <<>>)
       \o LedgerOf(best, id + 1)

InitLedger ==
  /\ backend \in Backends
  /\ db = "up"
  /\ users \in [Ids -> Names \cup {NoUser}]
  /\ \E best \in [Ids -> 0 .. MaxScore] :
       /\ backend # "sqlite" => \A id \in Ids : best[id] > 0 => users[id] # NoUser
       /\ scores = LedgerOf(best, 1)
  /\ \E id \in Ids, name \in Names :
       /\ backend = "mongo" => users[id] # NoUser
       /\ sessions = {[twitterId |-> id, username |-> name]}
  /\ upserts = {}
  /\ reqs = <<>>
  /\ messages = <<>>
  /\ nextMid = 1
  /\ inserts = {}
  /\ conn = [c \in Clients |-> "off"]
  /\ received = [c \in Clients |-> <<>>]
  /\ chats = <<>>
  /\ faults = MaxFaults

LedgerSubmit(user, score) ==
  /\ Len(reqs) < LedgerSubmits
  /\ SubmitScore(user, score)

NextLedger ==
  \/ GetLeaderboard
  \/ \E user \in sessions, score \in Scores : LedgerSubmit(user, score)
  \/ \E i \in DOMAIN reqs : InsertScore(i)
  \/ \E i \in DOMAIN reqs : CheckTop3(i)
  \/ \E i \in DOMAIN reqs : LogAnnouncement(i)
  \/ \E p \in inserts : CommitInsert(p)

SpecLedger == InitLedger /\ [][NextLedger]_vars

\* ================================================================== claims
\* The leaderboard of the ledger alone: an identity's rank lies between
\* BestRank (ties resolved for it) and WorstRank (ties resolved against it).
BestRank(sc, id, score) ==
  1 + Cardinality({j \in Ids \ {id} : BestOf(sc, j) > score})

WorstRank(sc, id, score) ==
  1 + Cardinality({j \in Ids \ {id} : ScoresOf(sc, j) # {} /\ BestOf(sc, j) >= score})

Submitted == {i \in DOMAIN reqs : reqs[i].inserted}

\* C1: a submission whose score is strictly lower than a score its identity
\* already had in the ledger when its own row was inserted emits no
\* announcement and appends none to the messages table.
C1_LowerScoreNeverAnnounced ==
  \A i \in Submitted :
    reqs[i].score < reqs[i].prevBest =>
      reqs[i].ann = <<>> /\ reqs[i].logged = 0 /\ reqs[i].pc # "logAnn"

\* The ledger a handler's top-3 query read.
LedgerSeen(i) == SubSeq(scores, 1, reqs[i].seen)

\* C2: a finished submission that was a new best for its identity and put
\* it at rank 1, 2 or 3 of the ledger's leaderboard emitted exactly one
\* announcement, naming that rank, the identity's label and the score.
C2_NewBestTop3AnnouncedOnce ==
  \A i \in Submitted :
    LET r == reqs[i]
        id == r.user.twitterId
    IN (/\ r.pc = "done" /\ r.seen > 0
        /\ r.score > r.prevBest
        /\ WorstRank(LedgerSeen(i), id, r.score) <= 3)
       => /\ Len(r.ann) = 1
          /\ \E rank \in BestRank(LedgerSeen(i), id, r.score) ..
                         WorstRank(LedgerSeen(i), id, r.score),
                name \in {r.user.username, users[id]} :
               r.ann[1] = Announcement(name, rank, r.score)

\* C10: a submission that was a new best for its identity while at least
\* three other identities hold a strictly higher best score in the ledger
\* it read (so that it is outside the first three positions however ties
\* are ordered) emits no announcement and appends none.
C10_NewBestBelowTop3Silent ==
  \A i \in Submitted :
    LET r == reqs[i] IN
    (/\ r.seen > 0
     /\ r.score > r.prevBest
     /\ BestRank(LedgerSeen(i), r.user.twitterId, r.score) > 3)
    => r.ann = <<>> /\ r.logged = 0 /\ r.pc # "logAnn"

Played == {id \in Ids : ScoresOf(scores, id) # {}}

\* rows holds one entry for each identity that has played, up to the limit,
\* with that identity's best score, best scores descending.
IsLeaderboard(rows, limit) ==
  /\ Len(rows) = Min(limit, Cardinality(Played))
  /\ \A p \in DOMAIN rows :
       /\ rows[p].twitterId \in Played
       /\ rows[p].highScore = BestOf(scores, rows[p].twitterId)
       /\ \A q \in DOMAIN rows :
            /\ p # q => rows[p].twitterId # rows[q].twitterId
            /\ p < q => rows[p].highScore >= rows[q].highScore
  /\ \A id \in Played : \A p \in DOMAIN rows :
       BestOf(scores, id) > rows[p].highScore =>
         \E q \in DOMAIN rows : rows[q].twitterId = id

\* C9: whatever the ledger holds, getLeaderboard can return one sequence
\* only (ties are ordered deterministically), and it is the first
\* min(20, k) entries of the (identity, best score) pairs of the k
\* identities that have played, best scores descending.
C9_LeaderboardIsSortedBest ==
  db = "up" =>
    /\ Cardinality(QueryLeaderboard(LeaderboardLimit)) = 1
    /\ \A rows \in QueryLeaderboard(LeaderboardLimit) : IsLeaderboard(rows, 20)

Logged(mid) == \E k \in DOMAIN messages : messages[k].mid = mid

Delivered(c, mid) == \E j \in DOMAIN received[c] : received[c][j].mid = mid

\* C3: every message a client has been sent, announcement or chat, is in
\* the messages table.
C3_PublishedOnlyAfterLogged ==
  \A c \in Clients : \A j \in DOMAIN received[c] : Logged(received[c][j].mid)

\* C4: a finished submission whose score row was inserted was answered with
\* success, whatever became of the top-3 query and the announcement insert.
C4_InsertedScoreAcknowledged ==
  \A i \in Submitted : reqs[i].pc = "done" => reqs[i].res = "200"

\* C5: a client whose replay is still outstanding has been sent nothing,
\* and no live message precedes a replayed one in what a client was sent.
C5_ReplayBeforeLive ==
  \A c \in Clients :
    /\ conn[c] = "pending" => received[c] = <<>>
    /\ \A j, k \in DOMAIN received[c] :
         j < k => ~(received[c][j].via = "live" /\ received[c][k].via = "replay")

\* C6: no message is sent twice to a client, and a client whose replay is
\* done has been sent every logged message (the table is shorter than the
\* replay limit here, so each was either in the snapshot or logged later).
C6_NoDuplicateNoDrop ==
  \A c \in Clients :
    /\ \A j, k \in DOMAIN received[c] :
         j # k => received[c][j].mid # received[c][k].mid
    /\ (conn[c] = "live" /\ Len(messages) <= 50) =>
         \A k \in DOMAIN messages : Delivered(c, messages[k].mid)

\* A submission without a session user arrives in this step.
UnauthenticatedStep ==
  \E i \in DOMAIN reqs' : i \notin DOMAIN reqs /\ reqs'[i].user = NoSession

\* C8: the step that takes an unauthenticated submission answers 401 and
\* changes no table, no queue and no socket; the handler does nothing after.
C8_UnauthenticatedNoEffect ==
  [][/\ UnauthenticatedStep =>
          /\ reqs'[Len(reqs')].res = "401"
          /\ UNCHANGED <<users, upserts, sessions, scores, messages, inserts,
                         conn, received>>
     /\ \A i \in DOMAIN reqs : reqs[i].user = NoSession => reqs'[i] = reqs[i]
    ]_vars

\* An unauthenticated submission was turned away while the ledger, the log
\* and a client's socket held data and another submission was in flight.
C8_Witness ==
  /\ \E i \in DOMAIN reqs : reqs[i].user = NoSession /\ reqs[i].res = "401"
  /\ \E i \in DOMAIN reqs : reqs[i].pc = "check"
  /\ scores # <<>> /\ messages # <<>>
  /\ \E c \in Clients : received[c] # <<>>

Replayed(c) == {j \in DOMAIN received[c] : received[c][j].via = "replay"}

LiveCount(c, mid) ==
  Cardinality({j \in DOMAIN received[c] :
                 received[c][j].mid = mid /\ received[c][j].via = "live"})

ReplayCount(c, mid) ==
  Cardinality({j \in DOMAIN received[c] :
                 received[c][j].mid = mid /\ received[c][j].via = "replay"})

\* The insert of the message is still in flight.
Pending(mid) == \E p \in inserts : p.msg.mid = mid

\* A client whose replay was over when the message was sent gets it once,
\* live.
LiveExactlyOnce ==
  \A k \in DOMAIN chats : \A c \in chats[k].live :
    /\ LiveCount(c, chats[k].mid) <= 1
    /\ Pending(chats[k].mid) \/ LiveCount(c, chats[k].mid) = 1

\* A client that connected after the message was logged gets it once, in
\* its replay (the table is shorter than the replay limit here).
LaterReplayExactlyOnce ==
  \A k \in DOMAIN chats : \A c \in chats[k].absent :
    (conn[c] = "live" /\ Len(messages) <= 50) =>
      /\ ReplayCount(c, chats[k].mid) = 1
      /\ LiveCount(c, chats[k].mid) = 0

\* C11: a chat message sent after a client's replay was over is sent to
\* that client exactly once on the live channel, and a client that connects
\* after the message was logged finds it exactly once in its replay.
C11_ChatExactlyOnce ==
  LiveExactlyOnce /\ LaterReplayExactlyOnce

\* The clients connected when the message was published: sqlite emits when
\* the message is sent, the other two when its row is in the table.
PublishedTo(k) ==
  IF backend = "sqlite" THEN chats[k].on ELSE Clients \ chats[k].absent

\* C12: every chat message a client has sent is in the messages table or
\* on its way there, and once it is in the table it was sent on the live
\* channel to every client connected when it was published.
C12_ChatAcceptedUnconditionally ==
  \A k \in DOMAIN chats :
    /\ Logged(chats[k].mid) \/ Pending(chats[k].mid)
    /\ Logged(chats[k].mid) =>
         \A c \in PublishedTo(k) : LiveCount(c, chats[k].mid) >= 1

\* Where a message stands in the table, and in what a client was sent live.
LogPos(mid) == CHOOSE k \in DOMAIN messages : messages[k].mid = mid

LivePos(c, mid) ==
  CHOOSE j \in DOMAIN received[c] :
    received[c][j].mid = mid /\ received[c][j].via = "live"

LogOrderKept ==
  \A k1, k2 \in DOMAIN chats :
    (k1 < k2 /\ chats[k1].from = chats[k2].from
       /\ Logged(chats[k1].mid) /\ Logged(chats[k2].mid))
    => LogPos(chats[k1].mid) < LogPos(chats[k2].mid)

LiveOrderKept ==
  \A k1, k2 \in DOMAIN chats : \A c \in Clients :
    (k1 < k2 /\ chats[k1].from = chats[k2].from
       /\ LiveCount(c, chats[k1].mid) > 0 /\ LiveCount(c, chats[k2].mid) > 0)
    => LivePos(c, chats[k1].mid) < LivePos(c, chats[k2].mid)

\* C13: two chat messages one connection sent stand in the messages table,
\* and in what every client was sent live, in the order they were sent.
C13_ChatOrderPerConnection ==
  LogOrderKept /\ LiveOrderKept

\* C14: no submission handler has ended in an uncaught error, and every
\* handler that has ended has answered: with success (200) or with a
\* failure (401, 500).
C14_EverySubmissionAnswered ==
  \A i \in DOMAIN reqs :
    /\ reqs[i].pc # "crashed"
    /\ reqs[i].pc = "done" => reqs[i].res \in {"200", "401", "500"}

\* C15: every row of the scores table carries a twitterId that has a row in
\* the users table.
C15_ScoresReferenceUsers ==
  \A k \in DOMAIN scores : users[scores[k].twitterId] # NoUser

\* C16: every step leaves the rows the scores table held in place and
\* unchanged; a step can only append.
C16_LedgerAppendOnly ==
  [][/\ Len(scores') >= Len(scores)
     /\ SubSeq(scores', 1, Len(scores)) = scores]_vars

\* A submission was answered 500 after its row was inserted (its top-3
\* query or its announcement insert failed), another row was inserted
\* since, and the row of the first is still in the table.
C16_Witness ==
  \E i \in Submitted :
    /\ reqs[i].pc = "done" /\ reqs[i].res = "500"
    /\ Len(scores) = 2
    /\ scores[1] = [twitterId |-> reqs[i].user.twitterId, score |-> reqs[i].score]

\* The ledger holds a row this handler inserted.
InLedger(i) ==
  \E k \in DOMAIN scores :
    scores[k] = [twitterId |-> reqs[i].user.twitterId, score |-> reqs[i].score]

\* C17: a handler whose score insert failed has answered with a failure,
\* has run no top-3 query, has queued or made no insert into messages and
\* has emitted nothing; and a handler that answered 200 has its row in the
\* scores table.
C17_FailedAppendFails ==
  \A i \in DOMAIN reqs :
    LET r == reqs[i] IN
    /\ (r.user # NoSession /\ ~r.inserted /\ r.pc # "insert" /\ r.pc # "crashed")
       => /\ r.pc = "done" /\ r.res = "500"
          /\ r.seen = 0 /\ r.rows = <<>>
          /\ r.ann = <<>> /\ r.logged = 0
          /\ \A p \in inserts : p.req # i
    /\ r.res = "200" => r.inserted /\ InLedger(i)

\* One handler's insert failed and it answered 500, another's went through
\* and was acknowledged.
C17_Witness ==
  \E i, j \in DOMAIN reqs :
    /\ reqs[i].user # NoSession /\ ~reqs[i].inserted
    /\ reqs[i].pc = "done" /\ reqs[i].res = "500"
    /\ reqs[j].inserted /\ reqs[j].res = "200"

\* C18: a submission whose score does not exceed the best score its
\* identity already had in the ledger (lower or equal) emits no
\* announcement and appends none to the messages table.
C18_OnlyNewBestAnnounced ==
  \A i \in Submitted :
    reqs[i].score <= reqs[i].prevBest =>
      /\ reqs[i].ann = <<>> /\ reqs[i].logged = 0 /\ reqs[i].pc # "logAnn"
      /\ \A p \in inserts : p.req # i

\* C19: the row of the top-3 result the handler decides on is the row of
\* the submitting identity: the lookup finds no row of another identity,
\* and finds the submitter's row whenever the result holds one.
C19_LookupKeyedByIdentity ==
  \A i \in DOMAIN reqs :
    LET r == reqs[i]
        rank == FindRank(r.rows, r.user.username)
        own == {p \in DOMAIN r.rows : r.rows[p].twitterId = r.user.twitterId}
    IN r.seen > 0 =>
         /\ rank > 0 => r.rows[rank].twitterId = r.user.twitterId
         /\ own # {} => rank \in own

\* C20: a handler runs its top-3 query only after its own score row is in
\* the table and announces only after that query: the ledger the query
\* read holds a score of the submitter of at least the submitted one, and
\* so does the submitter's row in the result.
C20_SnapshotAfterOwnCommit ==
  \A i \in DOMAIN reqs :
    LET r == reqs[i] IN
    /\ r.pc \in {"check", "logAnn"} => r.inserted
    /\ r.seen > 0 =>
         /\ r.inserted
         /\ BestOf(LedgerSeen(i), r.user.twitterId) >= r.score
         /\ \A p \in DOMAIN r.rows :
              r.rows[p].twitterId = r.user.twitterId => r.rows[p].highScore >= r.score
    /\ (r.ann # <<>> \/ r.logged > 0 \/ \E p \in inserts : p.req = i)
         => r.seen > 0

\* A handler's top-3 query read a ledger of two rows, its own and one
\* inserted after it, and the submitter's row in the result carries the
\* higher, later score.
C20_Witness ==
  \E i \in DOMAIN reqs :
    LET r == reqs[i] IN
    /\ r.seen = 2
    /\ scores[1] = [twitterId |-> r.user.twitterId, score |-> r.score]
    /\ \E p \in DOMAIN r.rows :
         r.rows[p].twitterId = r.user.twitterId /\ r.rows[p].highScore > r.score

\* Every announcement in the table, in flight or on a socket carries the
\* system label as its author.
AnnouncementsBySystem ==
  /\ \A k \in DOMAIN messages :
       messages[k].text[1] = "took" => messages[k].user = SYSTEM
  /\ \A p \in inserts : p.msg.text[1] = "took" => p.msg.user = SYSTEM
  /\ \A c \in Clients : \A j \in DOMAIN received[c] :
       received[c][j].text[1] = "took" => received[c][j].user = SYSTEM

\* A handler has emitted, queued and logged one announcement at most.
AtMostOneAnnouncement ==
  \A i \in DOMAIN reqs :
    /\ Len(reqs[i].ann) <= 1
    /\ reqs[i].logged <= 1
    /\ Cardinality({p \in inserts : p.req = i}) <= 1

\* What a handler announced names the submitting identity, by the label
\* the users table holds for it, and the score it submitted.
AnnouncesSubmitterOnly ==
  \A i \in DOMAIN reqs : \A k \in DOMAIN reqs[i].ann :
    /\ reqs[i].ann[k][2] = users[reqs[i].user.twitterId]
    /\ reqs[i].ann[k][4] = reqs[i].score

\* C21: a submission produces one announcement at most, authored by the
\* system label, and the announcement names the submitting identity and
\* its score, never another identity.
C21_OneAnnouncementAboutSubmitter ==
  AnnouncementsBySystem /\ AtMostOneAnnouncement /\ AnnouncesSubmitterOnly

====
